---- MODULE Spec2Model ----
(***************************************************************************)
(* The retry engine of tokio-retry (src/src/future.rs): RetryIf drives an  *)
(* Action through repeated attempts, pulling delays from a Strategy        *)
(* iterator and consulting a Condition after every failed attempt.         *)
(*                                                                         *)
(* The variables strategy, state, action, handle and condition are the     *)
(* fields of struct RetryIf.  The sub-future held in `state` is completed  *)
(* by the environment (the attempt resolves, the reactor timer fires).     *)
(* `trace` is the history of what the engine did, `result` the value the   *)
(* most recent poll returned, `notified` the wake-up of the polling task.  *)
(*                                                                         *)
(* The strategies (src/src/strategy, src/src/strategies) are exercised on  *)
(* their own in SpecStrategy: `strat` is the strategy value under test,    *)
(* `calls` the history of what its calls returned and `clock` the reading  *)
(* of the monotonic clock.                                                 *)
(***************************************************************************)
EXTENDS Integers, Sequences, FiniteSets, TLC

\* Longest strategy (number of delays it can yield before None).
MaxDelays == 2

\* Polls made after the engine has completed (SpecRepoll only).
MaxLatePolls == 1

\* Action::run calls a session can make: one per delay plus the first.
MaxCalls == MaxDelays + 1

VARIABLES strategy, state, action, handle, condition,
          trace, inflight, result, notified, latePolls,
          strat, calls, clock

vars == <<strategy, state, action, handle, condition,
          trace, inflight, result, notified, latePolls,
          strat, calls, clock>>

\* The variables of the strategy under test, left alone by the engine.
benchVars == <<strat, calls, clock>>

----------------------------------------------------------------------------
\* Poll<A::Item, Error<A::Error>>: the value a poll returns.
NotReady == [tag |-> "NotReady", val |-> 0]
Ready(v) == [tag |-> "Ready", val |-> v]
OperationError(e) == [tag |-> "OperationError", val |-> e]
TimerError == [tag |-> "TimerError", val |-> 0]

\* No poll has been made yet.
Unpolled == [tag |-> "Unpolled", val |-> 0]

\* An event of the history.
Ev(e, n) == [ev |-> e, n |-> n]

\* RetryState::Running(future) / RetryState::Sleeping(timeout).  `st` is the
\* readiness of the held sub-future: "pending", "ok"/"err" (attempt),
\* "elapsed"/"err" (timeout), or "finished" once it has been polled to
\* completion.
Running(future) == [tag |-> "Running", id |-> future.id, st |-> future.st, dur |-> 0]
Sleeping(timeout) == [tag |-> "Sleeping", id |-> timeout.id, st |-> timeout.st, dur |-> timeout.dur]

\* The failure / success value of the i-th attempt: the tests' actions
\* return the call counter.
ErrVal(i) == i
OkVal(i) == i

\* What a future returned by Action::run does when first polled.
AttemptKinds == {"pending", "ok", "err"}

\* What Timeout::new does: fail to arm, or give a timer that is pending,
\* already elapsed or already failed when first polled.
TimerKinds == {"armfail", "pending", "elapsed", "err"}

\* Delay sequences handed to the engine (FixedInterval-like, taken n times).
Strategies == { [i \in 1..n |-> 100 * i] : n \in 0..MaxDelays }

\* RetryAlways (Retry::spawn) or a closure |e| -> bool given by the set of
\* failure values it accepts.
Conditions == {[name |-> "RetryAlways", accept |-> {}]} \cup
              { [name |-> "closure", accept |-> S] : S \in SUBSET (1..MaxCalls) }

----------------------------------------------------------------------------
\* Clone for the request type: the original is left as it is and an equal
\* value is handed out.
Clone_clone(x) == [original |-> x, copy |-> x]

\* impl Action for ServiceRequest: run() is inner.call(request.clone()).
\* `sent` remembers the requests the inner service has received, and the
\* service answers as its script says.
ServiceRequest_run(a) ==
    LET n == a.num_calls + 1
        c == Clone_clone(a.request)
    IN [action |-> [a EXCEPT !.num_calls = n, !.request = c.original,
                             !.sent = Append(@, c.copy)],
        future |-> [id |-> n, st |-> a.script[n]]]

\* Action::run. impl Action for FnMut: run() calls the closure, which counts
\* its calls.
Action_run(a) ==
    IF "request" \in DOMAIN a THEN ServiceRequest_run(a)
    ELSE LET n == a.num_calls + 1
         IN [action |-> [a EXCEPT !.num_calls = n],
             future |-> [id |-> n, st |-> a.script[n]]]

\* Timeout::new(duration, &handle): Err when the timer cannot be armed.
Timeout_new(duration, h) ==
    LET k == h.timeouts + 1
    IN [handle |-> [h EXCEPT !.timeouts = k],
        ok |-> h.script[k] # "armfail",
        timeout |-> [id |-> k, st |-> h.script[k], dur |-> duration]]

\* Mutant: the iterator stops one element early.
Strategy_next_short(s) ==
    IF Len(s) <= 1 THEN [some |-> FALSE, duration |-> 0, strategy |-> s]
    ELSE [some |-> TRUE, duration |-> Head(s), strategy |-> Tail(s)]

\* Iterator::next on the strategy.
Strategy_next(s) ==
    IF s = <<>> THEN [some |-> FALSE, duration |-> 0, strategy |-> s]
    ELSE [some |-> TRUE, duration |-> Head(s), strategy |-> Tail(s)]

\* Mutant: the default Condition never retries.
RetryAlways_never(e) == FALSE

\* impl Condition for RetryAlways.
RetryAlways_should_retry(e) == TRUE

\* Mutant: the supplied Condition is not consulted.
should_retry_always(c, e) == TRUE

\* Condition::should_retry, for RetryAlways and for closures.
should_retry(c, e) ==
    IF c.name = "RetryAlways" THEN RetryAlways_should_retry(e)
    ELSE e \in c.accept

\* RetryState::poll: the poll of the held sub-future; a sub-future that
\* returned Ready or Err is finished.
RetryState_poll(s) ==
    IF s.st = "pending" THEN s ELSE [s EXCEPT !.st = "finished"]

\* The engine as a record: the fields of RetryIf plus the history.
Self == [strategy |-> strategy, state |-> state, action |-> action,
         handle |-> handle, condition |-> condition,
         trace |-> trace, inflight |-> inflight]

Log(self, e, n) == [self EXCEPT !.trace = Append(@, Ev(e, n))]

Return(self, r) == [self |-> self, ret |-> r]

RECURSIVE poll(_)
RECURSIVE attempt(_)
RECURSIVE retry(_, _)
RECURSIVE strategy_next(_)

\* Mutant: the new attempt is stored but not polled.
attempt_lazy(self) ==
    LET r == Action_run(self.action)
        s1 == [Log(Log(self, "run", r.future.id), "Running", r.future.id)
                 EXCEPT !.action = r.action,
                        !.state = Running(r.future),
                        !.inflight = @ \cup {<<"attempt", r.future.id>>}]
    IN Return(s1, NotReady)

\* RetryIf::attempt
attempt(self) ==
    LET r == Action_run(self.action)
        s1 == [Log(Log(self, "run", r.future.id), "Running", r.future.id)
                 EXCEPT !.action = r.action,
                        !.state = Running(r.future),
                        !.inflight = @ \cup {<<"attempt", r.future.id>>}]
    IN poll(s1)

\* Mutant: an exhausted strategy yields an error of its own.
retry_None_exhausted(self, err) ==
    Return(Log(self, "next_none", 0), OperationError(0))

\* RetryIf::retry, strategy.next() = None: the failure is returned as it is.
retry_None(self, err) == Return(Log(self, "next_none", 0), OperationError(err))

\* Mutant: a timer that cannot be armed is skipped and the next attempt
\* starts at once.
retry_arm_failed_skip(self, duration) ==
    attempt(Log(self, "arm_failed", duration))

\* RetryIf::retry, Timeout::new(..).map_err(Error::TimerError)? fails: the
\* state is left as it was.
retry_arm_failed(self, duration) ==
    Return(Log(self, "arm_failed", duration), TimerError)

\* Mutant: the next attempt is started without sleeping.
retry_no_sleep(self, err) ==
    LET nx == Strategy_next(self.strategy)
        s1 == [self EXCEPT !.strategy = nx.strategy]
    IN IF ~nx.some
       THEN retry_None(s1, err)
       ELSE attempt(Log(s1, "next_some", nx.duration))

\* RetryIf::retry
retry(self, err) ==
    LET nx == strategy_next(self)
        s1 == [self EXCEPT !.strategy = nx.strategy]
    IN IF ~nx.some
       THEN retry_None(s1, err)
       ELSE LET t == Timeout_new(nx.duration, s1.handle)
                s2 == [Log(s1, "next_some", nx.duration) EXCEPT !.handle = t.handle]
            IN IF ~t.ok
               THEN retry_arm_failed(s2, nx.duration)
               ELSE poll([Log(Log(s2, "arm", nx.duration), "Sleeping", t.timeout.id)
                            EXCEPT !.state = Sleeping(t.timeout),
                                   !.inflight = @ \cup {<<"timer", t.timeout.id>>}])

\* The sub-future held in the state has returned Ready or Err.
Observed(self) ==
    [self EXCEPT !.state = RetryState_poll(self.state),
                 !.inflight = @ \ {<<IF self.state.tag = "Running" THEN "attempt" ELSE "timer",
                                     self.state.id>>}]

\* Mutant: a delay is pulled from the strategy on success too.
poll_Ok_pulls(self) ==
    LET v == OkVal(self.state.id)
        nx == Strategy_next(self.strategy)
        s1 == [Log(Observed(self), "Ok", v) EXCEPT !.strategy = nx.strategy]
    IN Return(IF nx.some THEN Log(s1, "next_some", nx.duration) ELSE s1, Ready(v))

\* RetryIf::poll, Running arm, Ok(async) => Ok(async) with a ready value.
poll_Ok(self) ==
    LET v == OkVal(self.state.id)
    IN Return(Log(Observed(self), "Ok", v), Ready(v))

\* Mutant: the state is switched to a sleep before the rejection is returned.
poll_rejected_armed(self, err) ==
    Return([Log(self, "should_retry_false", err)
              EXCEPT !.state = Sleeping([id |-> 0, st |-> "pending", dur |-> 0]),
                     !.inflight = @ \cup {<<"timer", 0>>}],
           OperationError(err))

\* RetryIf::poll, Running arm, the Condition has rejected the failure.
poll_rejected(self, err) ==
    Return(Log(self, "should_retry_false", err), OperationError(err))

\* Mutant: the strategy is advanced before the Condition is asked.
poll_Err_pulls_first(self) ==
    LET err == ErrVal(self.state.id)
        s1 == Log(Observed(self), "Err", err)
    IN IF should_retry(self.condition, err)
       THEN retry(Log(s1, "should_retry_true", err), err)
       ELSE poll_rejected([s1 EXCEPT !.strategy = Strategy_next(@).strategy], err)

\* RetryIf::poll, Running arm, Err(err).
poll_Err(self) ==
    LET err == ErrVal(self.state.id)
        s1 == Log(Observed(self), "Err", err)
    IN IF should_retry(self.condition, err)
       THEN retry(Log(s1, "should_retry_true", err), err)
       ELSE poll_rejected(s1, err)

\* The Running arm of RetryIf::poll.
poll_Running(self) ==
    CASE self.state.st = "ok" -> poll_Ok(self)
      [] self.state.st = "err" -> poll_Err(self)
      [] OTHER -> Return(self, NotReady)

\* Mutant: a failed timer is treated as elapsed.
poll_timer_failed_retry(self) ==
    attempt(Log(Observed(self), "timer_err", self.state.id))

\* RetryIf::poll, Sleeping arm, Err(err) => Err(Error::TimerError(err)).
poll_timer_failed(self) ==
    Return(Log(Observed(self), "timer_err", self.state.id), TimerError)

\* Mutant: an elapsed timer is taken for a pending one.
poll_Sleeping_stuck(self) ==
    CASE self.state.st = "err" -> poll_timer_failed(self)
      [] OTHER -> Return(self, NotReady)

\* Mutant: the NotReady arm is missing, any Ok starts the next attempt.
poll_Sleeping_eager(self) ==
    CASE self.state.st = "err" -> poll_timer_failed(self)
      [] self.state.st = "elapsed" -> attempt(Log(Observed(self), "elapsed", self.state.id))
      [] OTHER -> attempt(self)

\* The Sleeping arm of RetryIf::poll.
poll_Sleeping(self) ==
    CASE self.state.st = "elapsed" -> attempt(Log(Observed(self), "elapsed", self.state.id))
      [] self.state.st = "err" -> poll_timer_failed(self)
      [] OTHER -> Return(self, NotReady)

\* RetryIf::poll (Retry::poll delegates to it).
poll(self) ==
    IF self.state.tag = "Running" THEN poll_Running(self) ELSE poll_Sleeping(self)

\* Retry::poll
Retry_poll(self) == poll(self)

\* Mutant: the constructor starts the action twice and keeps the second.
with_condition_twice(h, s, a, c) ==
    LET r == Action_run(Action_run(a).action)
    IN [strategy |-> s, state |-> Running(r.future), action |-> r.action,
        handle |-> h, condition |-> c,
        trace |-> <<Ev("run", r.future.id), Ev("Running", r.future.id)>>,
        inflight |-> {<<"attempt", r.future.id>>}]

----------------------------------------------------------------------------
\* RetryIf::with_condition (and Retry::spawn, which passes RetryAlways):
\* the first attempt is started by the constructor.
with_condition(h, s, a, c) ==
    LET r == Action_run(a)
    IN [strategy |-> s, state |-> Running(r.future), action |-> r.action,
        handle |-> h, condition |-> c,
        trace |-> <<Ev("run", r.future.id), Ev("Running", r.future.id)>>,
        inflight |-> {<<"attempt", r.future.id>>}]

Init ==
    \E s \in Strategies, c \in Conditions,
       as \in [1..MaxCalls -> AttemptKinds], ts \in [1..MaxDelays -> TimerKinds] :
        LET e == with_condition([timeouts |-> 0, script |-> ts], s,
                                [num_calls |-> 0, script |-> as], c)
        IN /\ strategy = e.strategy
           /\ state = e.state
           /\ action = e.action
           /\ handle = e.handle
           /\ condition = e.condition
           /\ trace = e.trace
           /\ inflight = e.inflight
           /\ result = Unpolled
           /\ notified = TRUE
           /\ latePolls = 0
           /\ strat = [kind |-> "none"]
           /\ calls = <<>>
           /\ clock = 0

\* The events that record a terminal result returned by a poll.
Terminal == {"Ready", "OperationError", "TimerError"}

\* The positions of the history holding an event of the set E.
Pos(t, E) == {i \in 1..Len(t) : t[i].ev \in E}

\* Some poll has returned a success value or an error.
Completed == Pos(trace, Terminal) # {}

Install(r) ==
    /\ strategy' = r.self.strategy
    /\ state' = r.self.state
    /\ action' = r.self.action
    /\ handle' = r.self.handle
    /\ condition' = r.self.condition
    /\ inflight' = r.self.inflight
    /\ trace' = IF r.ret.tag = "NotReady" THEN r.self.trace
                ELSE Append(r.self.trace, Ev(r.ret.tag, r.ret.val))
    /\ result' = r.ret

\* The task polls the engine (the executor, e.g. Core::run, polls a future
\* until it completes and not afterwards).
PollEngine ==
    /\ ~Completed
    /\ Install(IF condition.name = "RetryAlways" THEN Retry_poll(Self) ELSE poll(Self))
    /\ notified' = FALSE
    /\ UNCHANGED latePolls

Poll == PollEngine /\ UNCHANGED benchVars

\* The pending attempt resolves and wakes the task.
AttemptCompletes ==
    /\ state.tag = "Running"
    /\ state.st = "pending"
    /\ \E out \in {"ok", "err"} : state' = [state EXCEPT !.st = out]
    /\ notified' = TRUE
    /\ UNCHANGED <<strategy, action, handle, condition, trace, inflight, result, latePolls>>
    /\ UNCHANGED benchVars

\* The pending timer elapses or fails and wakes the task.
TimerFires ==
    /\ state.tag = "Sleeping"
    /\ state.st = "pending"
    /\ \E out \in {"elapsed", "err"} : state' = [state EXCEPT !.st = out]
    /\ notified' = TRUE
    /\ UNCHANGED <<strategy, action, handle, condition, trace, inflight, result, latePolls>>
    /\ UNCHANGED benchVars

\* What a sub-future that has already completed may answer when it is
\* polled again: the Future contract leaves it open.
Repolled(tag) ==
    IF tag = "Running" THEN {"pending", "ok", "err", "panic"}
    ELSE {"pending", "elapsed", "err", "panic"}

\* A caller polls the engine again after it has completed: RetryIf::poll has
\* no completed state and polls the sub-future it still holds.
PollAfterCompletion ==
    /\ Completed
    /\ latePolls < MaxLatePolls
    /\ action.num_calls + Len(strategy) < MaxCalls
    /\ latePolls' = latePolls + 1
    /\ notified' = FALSE
    /\ \E again \in Repolled(state.tag) :
         CASE again = "panic" ->
                UNCHANGED <<strategy, state, action, handle, condition, trace, inflight, result>>
           [] again = "pending" ->
                /\ result' = NotReady
                /\ UNCHANGED <<strategy, state, action, handle, condition, trace, inflight>>
           [] OTHER -> Install(poll([Self EXCEPT !.state.st = again]))
    /\ UNCHANGED benchVars

Next == Poll \/ AttemptCompletes \/ TimerFires

Spec == Init /\ [][Next]_vars

NextRepoll == Next \/ PollAfterCompletion

SpecRepoll == Init /\ [][NextRepoll]_vars

\* Mutant: dropping the engine polls it a last time.
drop_flush(self) ==
    [poll(self).self EXCEPT !.state = [@ EXCEPT !.tag = "Dropped", !.st = "dropped"],
                            !.inflight = {}]

\* Dropping RetryIf drops its fields: the pending attempt or timer held in
\* `state` is released, nothing else runs (RetryIf has no Drop impl).
drop(self) ==
    [self EXCEPT !.state = [@ EXCEPT !.tag = "Dropped", !.st = "dropped"],
                 !.inflight = {}]

Dropped == state.tag = "Dropped"

\* The caller abandons the engine before it has completed.
Drop ==
    /\ ~Completed
    /\ ~Dropped
    /\ LET d == drop(Self)
       IN /\ strategy' = d.strategy
          /\ state' = d.state
          /\ action' = d.action
          /\ handle' = d.handle
          /\ condition' = d.condition
          /\ trace' = d.trace
          /\ inflight' = d.inflight
    /\ UNCHANGED <<result, notified, latePolls>>
    /\ UNCHANGED benchVars

\* A dropped engine cannot be polled: the caller has given up ownership.
PollOwned == ~Dropped /\ Poll

NextDrop == PollOwned \/ AttemptCompletes \/ TimerFires \/ Drop

SpecDrop == Init /\ [][NextDrop]_vars

----------------------------------------------------------------------------
\* The history read as the engine's state changes: the events that assign
\* self.state or return a terminal result, and the events between two of them.
StateEvents == {"Running", "Sleeping"} \cup Terminal

Changes(t) ==
    { p \in Pos(t, StateEvents) \X Pos(t, StateEvents) :
        /\ p[1] < p[2]
        /\ \A k \in (p[1] + 1)..(p[2] - 1) : t[k].ev \notin StateEvents }

Change(t, p) ==
    <<t[p[1]].ev, [k \in 1..(p[2] - p[1] - 1) |-> t[p[1] + k].ev], t[p[2]].ev>>

\* The state changes the specification lists.
ListedChanges ==
    { <<"Running", <<"Ok">>, "Ready">>,
      <<"Running", <<"Err", "should_retry_true", "next_some", "arm">>, "Sleeping">>,
      <<"Running", <<"Err", "should_retry_false">>, "OperationError">>,
      <<"Running", <<"Err", "should_retry_true", "next_none">>, "OperationError">>,
      <<"Sleeping", <<"elapsed", "run">>, "Running">>,
      <<"Sleeping", <<"timer_err">>, "TimerError">> }

\* The attempt failed, the Condition accepted, the Strategy yielded a delay,
\* and the timer could not be armed.
ArmFailedChange ==
    <<"Running", <<"Err", "should_retry_true", "next_some", "arm_failed">>, "TimerError">>

OneRetryState ==
    /\ state.tag \in {"Running", "Sleeping"}
    /\ trace[1] = Ev("run", 1)
    /\ trace[2] = Ev("Running", 1)

\* C1 as stated: the engine holds exactly one RetryState and every state
\* change is one of Running -> Succeeded, Running -> Sleeping, Running ->
\* Failed (Condition rejected or Strategy exhausted), Sleeping -> Running,
\* Sleeping -> Failed (timer failed).
C1_AsStated ==
    /\ OneRetryState
    /\ \A p \in Changes(trace) : Change(trace, p) \in ListedChanges

\* C1 (amended): the engine holds exactly one RetryState and every state
\* change is one of the listed ones or Running -> Failed(TimerError), taken
\* when the attempt failed, the Condition accepted, the Strategy yielded a
\* delay and the timer for it could not be armed; there is never a
\* Running -> Running or Sleeping -> Sleeping change.
C1_StateChanges ==
    /\ OneRetryState
    /\ \A p \in Changes(trace) : Change(trace, p) \in ListedChanges \cup {ArmFailedChange}
    /\ \A p \in Changes(trace) : trace[p[1]].ev # trace[p[2]].ev

\* A session that slept, ran a second attempt and then failed to arm.
C1_Witness ==
    /\ result = TimerError
    /\ Pos(trace, {"arm_failed"}) # {}
    /\ Pos(trace, {"elapsed"}) # {}

----------------------------------------------------------------------------
\* Facts about a session, read from its history.
Count(t, E) == Cardinality(Pos(t, E))

\* The number of delays the strategy of this session yields before None.
StrategyLen == Count(trace, {"next_some"}) + Len(strategy)

AllAttemptsFailed == Pos(trace, {"Ok"}) = {}

NoTimerFailure == Pos(trace, {"arm_failed", "timer_err"}) = {}

ConditionAlwaysAccepted == Pos(trace, {"should_retry_false"}) = {}

\* The events after the terminal result, if any.
AfterResult(t) ==
    {i \in 1..Len(t) : \E j \in Pos(t, Terminal) : j < i}

\* C2: with the default always-retry Condition, a Strategy of N delays, no
\* timer failure and an Action that fails every time, the session ends with
\* N+1 Action calls and Failed(OperationError(e)), e the last attempt's
\* failure.
C2_AttemptsUntilExhausted ==
    (Completed /\ condition.name = "RetryAlways" /\ AllAttemptsFailed /\ NoTimerFailure)
        => /\ action.num_calls = StrategyLen + 1
           /\ Count(trace, {"run"}) = StrategyLen + 1
           /\ result = OperationError(ErrVal(StrategyLen + 1))
           /\ strategy = <<>>

\* The always-failing Action ran out of a strategy of two delays.
C2_Witness ==
    /\ Completed /\ condition.name = "RetryAlways"
    /\ AllAttemptsFailed /\ NoTimerFailure
    /\ StrategyLen = 2
    /\ action.num_calls = 3

\* C3: when the first k attempts fail and attempt k+1 succeeds (Condition
\* accepting, no timer failure), the Action is called exactly k+1 times, the
\* result is Succeeded with the value of attempt k+1, and nothing follows
\* the result: no Action call, Strategy pull or Condition evaluation.
C3_AttemptsUntilSuccess ==
    \A k \in 0..MaxDelays :
        (/\ Pos(trace, {"Ok"}) # {}
         /\ Count(trace, {"Err"}) = k)
            => /\ Completed
               /\ action.num_calls = k + 1
               /\ Count(trace, {"run"}) = k + 1
               /\ result = Ready(OkVal(k + 1))
               /\ Count(trace, {"next_some"}) = k
               /\ Count(trace, {"should_retry_true"}) = k
               /\ AfterResult(trace) = {}
               /\ trace[Len(trace)] = Ev("Ready", OkVal(k + 1))

\* Two failures, then success on the third attempt.
C3_Witness ==
    /\ result = Ready(OkVal(3))
    /\ Count(trace, {"Err"}) = 2
    /\ action.num_calls = 3

----------------------------------------------------------------------------
\* The closure accepts the failures of attempts 1..m-1 and rejects the m-th.
RejectsAt(m) ==
    /\ condition.name = "closure"
    /\ \A e \in 1..(m - 1) : ErrVal(e) \in condition.accept
    /\ ErrVal(m) \notin condition.accept

\* C4: with a Condition that accepts failures 1..m-1 and rejects the m-th,
\* an always-failing Action and at least m-1 delays, the Action is called
\* exactly m times and the result is Failed(OperationError(e_m)), whatever
\* the Strategy still holds.
C4_ConditionGated ==
    \A m \in 1..MaxCalls :
        (/\ Completed /\ RejectsAt(m)
         /\ AllAttemptsFailed /\ NoTimerFailure
         /\ StrategyLen >= m - 1)
            => /\ action.num_calls = m
               /\ Count(trace, {"run"}) = m
               /\ result = OperationError(ErrVal(m))
               /\ Len(strategy) = StrategyLen - (m - 1)

\* The second failure is rejected while the strategy still holds a delay.
C4_Witness ==
    /\ Completed /\ RejectsAt(2)
    /\ AllAttemptsFailed /\ NoTimerFailure
    /\ action.num_calls = 2
    /\ Len(strategy) = 1

\* The failure value of the attempt that completed last.
LastFailure(t) ==
    LET errs == Pos(t, {"Err"})
    IN t[CHOOSE i \in errs : \A j \in errs : j <= i].n

\* C5: a terminal Failed(OperationError(e)) carries the unmodified failure
\* of the most recently completed attempt, also when the Strategy returned
\* None.
C5_FailurePreserved ==
    result.tag = "OperationError"
        => /\ Pos(trace, {"Err"}) # {}
           /\ result.val = LastFailure(trace)
           /\ result.val = ErrVal(action.num_calls)
           /\ trace[Len(trace)] = Ev("OperationError", LastFailure(trace))

\* The strategy ran out after the second attempt failed.
C5_Witness ==
    /\ result = OperationError(ErrVal(2))
    /\ Pos(trace, {"next_none"}) # {}

\* C6: a timer that cannot be armed, or that completes with a failure, ends
\* the session with Failed(TimerError), and nothing follows it: no Action
\* call, no Strategy pull, no Condition evaluation.
C6_TimerFailureFatal ==
    /\ \A i \in Pos(trace, {"arm_failed", "timer_err"}) :
          /\ i = Len(trace) - 1
          /\ trace[Len(trace)] = Ev("TimerError", 0)
          /\ result = TimerError
    /\ result = TimerError => Pos(trace, {"arm_failed", "timer_err"}) # {}

\* A pending sleep completed with a timer failure.
C6_Witness ==
    /\ result = TimerError
    /\ Pos(trace, {"timer_err"}) # {}
    /\ state.tag = "Sleeping"

----------------------------------------------------------------------------
\* C7 as stated: once a poll has returned a success value or an error, no
\* later poll changes the state, calls the Action, pulls the Strategy,
\* consults the Condition or yields a second terminal result.
C7_AsStated ==
    [][Completed =>
         /\ state' = state
         /\ action' = action
         /\ strategy' = strategy
         /\ Count(trace', Terminal) = Count(trace, Terminal)
         /\ Count(trace', {"should_retry_true", "should_retry_false"})
              = Count(trace, {"should_retry_true", "should_retry_false"})]_vars

\* C7 (amended): as long as the engine is not polled after it has completed,
\* the terminal result is yielded exactly once, by the last step of the
\* session: the sub-future it holds is finished, nothing is in flight and
\* nothing changes afterwards.
C7_NoPollAfterCompletion ==
    /\ [](latePolls = 0 =>
            /\ Count(trace, Terminal) <= 1
            /\ Completed =>
                 /\ Pos(trace, Terminal) = {Len(trace)}
                 /\ trace[Len(trace)] = Ev(result.tag, result.val)
                 /\ state.st = "finished"
                 /\ inflight = {})
    /\ [][(Completed /\ latePolls' = 0) =>
            UNCHANGED <<strategy, state, action, handle, condition, trace, inflight, result>>]_vars

\* The engine completed after a retry and has not been polled since.
C7_Witness ==
    /\ Completed
    /\ latePolls = 0
    /\ action.num_calls = 2
    /\ state.st = "finished"

----------------------------------------------------------------------------
\* The sub-operation the state holds, as an element of `inflight`.
Held == <<IF state.tag = "Running" THEN "attempt" ELSE "timer", state.id>>

\* C8: at most one of {attempt, timer wait} is outstanding, and every
\* Action::run after the first follows the failure of the previous attempt
\* and the elapsing of the timer armed for that failure.
C8_OneOutstanding ==
    /\ Cardinality(inflight) <= 1
    /\ inflight \subseteq {Held}
    /\ state.st = "pending" => inflight = {Held}
    /\ \A i \in Pos(trace, {"run"}) :
          i > 1 =>
            /\ i > 7
            /\ trace[i - 1].ev = "elapsed"
            /\ trace[i - 2] = Ev("Sleeping", trace[i - 1].n)
            /\ trace[i - 3].ev = "arm"
            /\ trace[i - 4].ev = "next_some"
            /\ trace[i - 5].ev = "should_retry_true"
            /\ trace[i - 6] = Ev("Err", ErrVal(trace[i].n - 1))

\* The second attempt is in flight after the first timer has elapsed.
C8_Witness ==
    /\ state.tag = "Running"
    /\ state.id = 2
    /\ state.st = "pending"
    /\ inflight = {<<"attempt", 2>>}

----------------------------------------------------------------------------
\* A closure that returns true for every failure.
AlwaysTrue == [name |-> "closure", accept |-> {ErrVal(i) : i \in 1..MaxCalls}]

RetryAlways == [name |-> "RetryAlways", accept |-> {}]

\* The engine with its Condition left out.
Forget(r) == [self |-> [r.self EXCEPT !.condition = "-"], ret |-> r.ret]

\* C9: from every state of a session, a poll of Retry (RetryAlways) and a
\* poll of RetryIf with an always-true Condition do the same: the same
\* Action calls, Strategy pulls and timer armings, the same next state and
\* the same returned value.
C9_DefaultAlwaysRetries ==
    (~Completed /\ condition \in {RetryAlways, AlwaysTrue})
        => Forget(Retry_poll([Self EXCEPT !.condition = RetryAlways]))
             = Forget(poll([Self EXCEPT !.condition = AlwaysTrue]))

\* A Retry session that has retried once and is about to be polled with
\* its second failed attempt.
C9_Witness ==
    /\ condition = RetryAlways
    /\ ~Completed
    /\ state.tag = "Running"
    /\ state.id = 2
    /\ state.st = "err"
    /\ Count(trace, {"should_retry_true"}) = 1
    /\ strategy # <<>>

----------------------------------------------------------------------------
\* C10: a poll advances until a terminal result or a sub-operation that is
\* not ready: after a poll, and until the task is woken, either the engine
\* has completed or the poll returned NotReady and the held attempt or
\* timer is pending.
C10_PollUntilNotReady ==
    ~notified =>
        \/ Completed
        \/ /\ result = NotReady
           /\ state.st = "pending"
           /\ inflight = {Held}

\* The first poll saw attempt 1 fail at once, the timer already elapsed,
\* and started attempt 2, which is pending.
C10_Witness ==
    /\ ~notified
    /\ result = NotReady
    /\ state.tag = "Running"
    /\ state.id = 2
    /\ state.st = "pending"
    /\ action.script[1] = "err"
    /\ handle.script[1] = "elapsed"

----------------------------------------------------------------------------
\* C11: when the engine is dropped while Running or Sleeping, the drop and
\* everything after it make no Action call, Strategy pull, Condition
\* evaluation or timer arming, nothing stays in flight and no terminal
\* result is produced.
C11_DropIsStructural ==
    /\ [](Dropped => (~Completed /\ inflight = {} /\ result.tag \notin Terminal))
    /\ [][state'.tag = "Dropped" =>
            /\ action' = action
            /\ strategy' = strategy
            /\ handle' = handle
            /\ condition' = condition
            /\ trace' = trace
            /\ result' = result]_vars

\* The engine was dropped during its second attempt, with a delay left.
C11_Witness ==
    /\ Dropped
    /\ action.num_calls = 2
    /\ state.id = 2
    /\ strategy # <<>>

----------------------------------------------------------------------------
\* The delay strategies and their decorators, exercised on their own: a
\* strategy is built, then pulled repeatedly while the clock advances.

\* The number of pulls made on the strategy under test.
MaxPulls == 4

\* The last reading of the monotonic clock.
MaxClock == 2

\* The width of the machine word standing for u64.
WordBits == 4

\* std::u64::MAX.
U64_MAX == 2^WordBits - 1

\* u64::checked_mul / u64::checked_add: None on overflow.
checked_mul(a, b) ==
    IF a * b <= U64_MAX THEN [some |-> TRUE, val |-> a * b]
    ELSE [some |-> FALSE, val |-> 0]

checked_add(a, b) ==
    IF a + b <= U64_MAX THEN [some |-> TRUE, val |-> a + b]
    ELSE [some |-> FALSE, val |-> 0]

\* std::time::Duration: whole seconds and the nanoseconds below a second.
Duration_new(secs, nanos) == [secs |-> secs, nanos |-> nanos]

Duration_from_millis(millis) ==
    Duration_new(millis \div 1000, (millis % 1000) * 1000000)

\* Ord for Duration and std::cmp::min on it.
Duration_le(a, b) ==
    \/ a.secs < b.secs
    \/ a.secs = b.secs /\ a.nanos <= b.nanos

Duration_min(a, b) == IF Duration_le(a, b) THEN a ELSE b

Duration_is_zero(d) == d.secs = 0 /\ d.nanos = 0

\* Option<Duration> as returned by a pull; `panic` marks a call that
\* unwound instead of returning.
Some(d) == [some |-> TRUE, d |-> d, panic |-> FALSE]
None == [some |-> FALSE, d |-> Duration_new(0, 0), panic |-> FALSE]
Panic == [some |-> FALSE, d |-> Duration_new(0, 0), panic |-> TRUE]

\* What a pull leaves behind: the item and the strategy after the call.
Yield(item, self) == [item |-> item, self |-> self]

\* strategy::ExponentialBackoff::from_millis and ::factor.
ExponentialBackoff_from_millis(base) ==
    [kind |-> "ExponentialBackoff", current |-> base, base |-> base,
     factor |-> 1, pulled |-> 0]

ExponentialBackoff_factor(self, factor) == [self EXCEPT !.factor = factor]

\* Mutant: the factor also feeds the growth of `current`.
ExponentialBackoff_next_compound(self) ==
    LET scaled == checked_mul(self.current, self.factor)
        grown == checked_mul(self.current * self.factor, self.base)
    IN Yield(Some(Duration_from_millis(IF scaled.some THEN scaled.val ELSE U64_MAX)),
             [self EXCEPT !.current = IF grown.some THEN grown.val ELSE U64_MAX])

\* impl Iterator for strategy::ExponentialBackoff.
ExponentialBackoff_next(self) ==
    LET scaled == checked_mul(self.current, self.factor)
        duration == IF scaled.some THEN Duration_from_millis(scaled.val)
                    ELSE Duration_from_millis(U64_MAX)
        grown == checked_mul(self.current, self.base)
    IN Yield(Some(duration),
             [self EXCEPT !.current = IF grown.some THEN grown.val ELSE U64_MAX])

\* The two builds of an unchecked u64 multiplication.
Builds == {"debug", "release"}

\* strategies::ExponentialBackoff::from_millis.
strategies_ExponentialBackoff_from_millis(base, build) ==
    [kind |-> "strategies::ExponentialBackoff", current |-> base, base |-> base,
     build |-> build, pulled |-> 0]

\* impl RetryStrategy for strategies::ExponentialBackoff: `current * base`
\* is unchecked, so an overflow panics in a debug build and wraps in a
\* release build.
strategies_ExponentialBackoff_delay(self) ==
    LET duration == Duration_from_millis(self.current)
        product == self.current * self.base
    IN IF product <= U64_MAX
       THEN Yield(Some(duration), [self EXCEPT !.current = product])
       ELSE IF self.build = "debug"
       THEN Yield(Panic, self)
       ELSE Yield(Some(duration), [self EXCEPT !.current = product % (U64_MAX + 1)])

\* FibonacciBackoff::from_millis.
FibonacciBackoff_from_millis(millis) ==
    [kind |-> "FibonacciBackoff", curr |-> millis, next |-> millis, pulled |-> 0]

\* Mutant: the sum wraps instead of saturating.
FibonacciBackoff_next_wrapping(self) ==
    Yield(Some(Duration_from_millis(self.curr)),
          [self EXCEPT !.curr = self.next,
                       !.next = (self.curr + self.next) % (U64_MAX + 1)])

\* impl Iterator for FibonacciBackoff.
FibonacciBackoff_next(self) ==
    LET duration == Duration_from_millis(self.curr)
        next_next == checked_add(self.curr, self.next)
    IN IF next_next.some
       THEN Yield(Some(duration), [self EXCEPT !.curr = self.next, !.next = next_next.val])
       ELSE Yield(Some(duration), [self EXCEPT !.curr = self.next, !.next = U64_MAX])

\* strategies::FixedInterval::new and its delay.
FixedInterval_new(duration) ==
    [kind |-> "FixedInterval", duration |-> duration, pulled |-> 0]

\* Mutant: the interval grows by a second with every call.
FixedInterval_delay_drifting(self) ==
    Yield(Some(self.duration), [self EXCEPT !.duration.secs = @ + 1])

\* impl RetryStrategy for FixedInterval.
FixedInterval_delay(self) == Yield(Some(self.duration), self)

\* strategies::NoRetry and its delay.
NoRetry == [kind |-> "NoRetry", pulled |-> 0]

NoRetry_delay(self) == Yield(None, self)

\* strategies::FromIterator::new; `given` remembers the sequence handed in.
FromIterator_new(iter) ==
    [kind |-> "FromIterator", iter |-> iter, given |-> iter, pulled |-> 0]

\* Mutant: the head is yielded without advancing the iterator.
FromIterator_delay_stuck(self) ==
    IF self.iter = <<>> THEN Yield(None, self) ELSE Yield(Some(Head(self.iter)), self)

\* impl RetryStrategy for strategies::FromIterator.
FromIterator_delay(self) ==
    LET n == Strategy_next(self.iter)
    IN Yield(IF n.some THEN Some(n.duration) ELSE None,
             [self EXCEPT !.iter = n.strategy])

\* A plain iterator over a sequence of durations, such as Vec::into_iter.
IntoIter(iter) == [kind |-> "IntoIter", iter |-> iter, pulled |-> 0]

IntoIter_next(self) ==
    LET n == Strategy_next(self.iter)
    IN Yield(IF n.some THEN Some(n.duration) ELSE None,
             [self EXCEPT !.iter = n.strategy])

\* The precision of the f64 mantissa, scaled down with the integers.
MantissaBits == 3

\* The random draw of Closed01 is jitter = j / JitterDen with j in Draws.
JitterBits == 2

JitterDen == 2^JitterBits

Draws == 0..JitterDen

\* The spacing of the f64 values around the integer x.
RECURSIVE Ulp(_)
Ulp(x) == IF x < 2^MantissaBits THEN 1 ELSE 2 * Ulp(x \div 2)

\* `x as f64` for a u64: the nearest representable value, ties to even.
ToF64(x) ==
    LET u == Ulp(x)
        lo == (x \div u) * u
        r == x - lo
    IN IF 2 * r < u THEN lo
       ELSE IF 2 * r > u THEN lo + u
       ELSE IF (lo \div u) % 2 = 0 THEN lo ELSE lo + u

\* Mutant: (x * jitter) truncated.
ceil_mul_floor(x, j) == (x \div JitterDen) * j + ((x % JitterDen) * j) \div JitterDen

\* (x * jitter).ceil() for a float x holding an integer.
ceil_mul(x, j) ==
    (x \div JitterDen) * j + ((x % JitterDen) * j + JitterDen - 1) \div JitterDen

\* strategy/jitter.rs apply_jitter: secs and nanos scaled by the draw, summed
\* in milliseconds, and the sum cast to u64, which truncates.
apply_jitter(duration, j) ==
    LET secs == ToF64(duration.secs) * j
        whole == duration.nanos \div 1000000
        part == duration.nanos % 1000000
        millis == (secs * 1000 + whole * j + (part * j) \div 1000000) \div JitterDen
    IN Duration_from_millis(millis)

\* strategy/jitter.rs jitter, given the draw it makes.
jitter(duration, j) == apply_jitter(duration, j)

\* What a call of the strategy can observe: the clock and the random draw.
Env(now, j) == [now |-> now, j |-> j]

RECURSIVE delay(_, _)

\* RetryStrategy::limit_retries.
limit_retries(inner, maximum) ==
    [kind |-> "LimitedRetries", inner |-> inner, current |-> 0,
     maximum |-> maximum, pulled |-> 0]

\* Mutant: the last permitted retry is refused.
LimitedRetries_delay_strict(self, env) ==
    LET counted == [self EXCEPT !.current = @ + 1]
    IN IF counted.current < counted.maximum
       THEN LET r == delay(counted.inner, env)
            IN Yield(r.item, [counted EXCEPT !.inner = r.self])
       ELSE Yield(None, counted)

\* Mutant: the counter starts over once the limit has been exceeded.
LimitedRetries_delay_reset(self, env) ==
    LET counted == [self EXCEPT !.current = @ + 1]
    IN IF counted.current <= counted.maximum
       THEN LET r == delay(counted.inner, env)
            IN Yield(r.item, [counted EXCEPT !.inner = r.self])
       ELSE Yield(None, [counted EXCEPT !.current = 0])

\* impl RetryStrategy for LimitedRetries.
LimitedRetries_delay(self, env) ==
    LET counted == [self EXCEPT !.current = @ + 1]
    IN IF counted.current <= counted.maximum
       THEN LET r == delay(counted.inner, env)
            IN Yield(r.item, [counted EXCEPT !.inner = r.self])
       ELSE Yield(None, counted)

\* RetryStrategy::limit_delay.
limit_delay(inner, maximum) ==
    [kind |-> "LimitedDelay", inner |-> inner, maximum |-> maximum, pulled |-> 0]

\* Mutant: the inner delay is passed through unclamped.
LimitedDelay_delay_unclamped(self, env) ==
    LET r == delay(self.inner, env)
    IN Yield(r.item, [self EXCEPT !.inner = r.self])

\* impl RetryStrategy for LimitedDelay.
LimitedDelay_delay(self, env) ==
    LET r == delay(self.inner, env)
    IN Yield(IF r.item.some THEN Some(Duration_min(r.item.d, self.maximum)) ELSE r.item,
             [self EXCEPT !.inner = r.self])

\* Deadline::deadline: the start is the clock reading at construction.
deadline(iter, max_duration, now) ==
    [kind |-> "DeadlineIterator", inner |-> iter, start |-> now,
     max_duration |-> max_duration, pulled |-> 0]

\* Instant::elapsed, one clock unit being a millisecond.
elapsed(start, now) == Duration_from_millis(now - start)

\* Mutant: the deadline itself already counts as passed.
DeadlineIterator_next_inclusive(self, env) ==
    IF Duration_le(self.max_duration, elapsed(self.start, env.now))
    THEN Yield(None, self)
    ELSE LET r == delay(self.inner, env)
         IN Yield(r.item, [self EXCEPT !.inner = r.self])

\* self.start.elapsed() > self.max_duration
DeadlineIterator_expired(self, env) ==
    ~Duration_le(elapsed(self.start, env.now), self.max_duration)

\* impl Iterator for DeadlineIterator.
DeadlineIterator_next(self, env) ==
    IF DeadlineIterator_expired(self, env)
    THEN Yield(None, self)
    ELSE LET r == delay(self.inner, env)
         IN Yield(r.item, [self EXCEPT !.inner = r.self])

\* RetryStrategy::jitter.
Jittered(inner) == [kind |-> "Jittered", inner |-> inner, pulled |-> 0]

\* impl RetryStrategy for Jittered: the draw is made inside the closure.
Jittered_delay(self, env) ==
    LET r == delay(self.inner, env)
        secs == ceil_mul(ToF64(r.item.d.secs), env.j)
        nanos == ceil_mul(r.item.d.nanos, env.j)
    IN Yield(IF r.item.some THEN Some(Duration_new(secs, nanos)) ELSE r.item,
             [self EXCEPT !.inner = r.self])

\* Iterator::map(jitter), as in examples/simple.rs.
Map_jitter(iter) == [kind |-> "Map", inner |-> iter, pulled |-> 0]

Map_jitter_next(self, env) ==
    LET r == delay(self.inner, env)
    IN Yield(IF r.item.some THEN Some(jitter(r.item.d, env.j)) ELSE r.item,
             [self EXCEPT !.inner = r.self])

\* One pull on a strategy: the delay / next of its type; `pulled` counts
\* the pulls each strategy has received.
delay(self, env) ==
    LET r == CASE self.kind = "ExponentialBackoff" -> ExponentialBackoff_next(self)
               [] self.kind = "strategies::ExponentialBackoff" ->
                      strategies_ExponentialBackoff_delay(self)
               [] self.kind = "FibonacciBackoff" -> FibonacciBackoff_next(self)
               [] self.kind = "FixedInterval" -> FixedInterval_delay(self)
               [] self.kind = "NoRetry" -> NoRetry_delay(self)
               [] self.kind = "FromIterator" -> FromIterator_delay(self)
               [] self.kind = "IntoIter" -> IntoIter_next(self)
               [] self.kind = "LimitedRetries" -> LimitedRetries_delay(self, env)
               [] self.kind = "LimitedDelay" -> LimitedDelay_delay(self, env)
               [] self.kind = "DeadlineIterator" -> DeadlineIterator_next(self, env)
               [] self.kind = "Jittered" -> Jittered_delay(self, env)
               [] self.kind = "Map" -> Map_jitter_next(self, env)
    IN Yield(r.item, [r.self EXCEPT !.pulled = @ + 1])

----------------------------------------------------------------------------
\* The strategies put under test.

\* Mutant: the engine pulls the wrapped iterator itself.
strategy_next_unwrapped(self) == Strategy_next(self.strategy)

\* self.strategy.next() in RetryIf::retry. The strategy handed to the engine
\* is the plain iterator held in `strategy`, or a DeadlineIterator around it
\* whose `start` and `max_duration` are kept in `strat`: then the pull is
\* DeadlineIterator::next with `iter` the iterator in `strategy`, and
\* Instant::elapsed reads the clock.
strategy_next(self) ==
    IF strat.kind # "DeadlineIterator" THEN Strategy_next(self.strategy)
    ELSE IF DeadlineIterator_expired(strat, Env(clock, 0))
         THEN [some |-> FALSE, duration |-> 0, strategy |-> self.strategy]
         ELSE Strategy_next(self.strategy)

\* Base durations in milliseconds, over the whole machine word.
Millis == 0..U64_MAX

Factors == 0..3

\* The delays the explicit sequences are made of.
Delays == { Duration_from_millis(m) : m \in 1..3 }

RECURSIVE SeqsUpTo(_, _)
SeqsUpTo(S, n) ==
    IF n = 0 THEN {<<>>}
    ELSE LET shorter == SeqsUpTo(S, n - 1)
         IN shorter \cup { Append(q, x) : q \in shorter, x \in S }

DelaySeqs == SeqsUpTo(Delays, MaxDelays)

\* Strategies of the RetryStrategy family a decorator can wrap.
Inners ==
    { FromIterator_new(q) : q \in DelaySeqs }
        \cup { FixedInterval_new(d) : d \in Delays } \cup {NoRetry}

\* Iterators a deadline can wrap.
Iterators ==
    { IntoIter(q) : q \in DelaySeqs } \cup {ExponentialBackoff_from_millis(2)}

Built(now) ==
    { ExponentialBackoff_factor(ExponentialBackoff_from_millis(b), f) :
          b \in Millis, f \in Factors }
        \cup { strategies_ExponentialBackoff_from_millis(b, build) :
                   b \in Millis, build \in Builds }
        \cup { FibonacciBackoff_from_millis(b) : b \in Millis }
        \cup { FromIterator_new(q) : q \in DelaySeqs }
        \cup { FixedInterval_new(d) : d \in Delays }
        \cup { limit_retries(i, n) : i \in Inners, n \in 0..MaxPulls }
        \cup { limit_delay(i, d) : i \in Inners, d \in Delays }
        \cup { deadline(i, Duration_from_millis(m), now) :
                   i \in Iterators, m \in 0..MaxClock }

\* The engine is left idle while a strategy is exercised.
Idle ==
    LET e == with_condition([timeouts |-> 0, script |-> [i \in 1..MaxDelays |-> "pending"]],
                            <<>>,
                            [num_calls |-> 0, script |-> [i \in 1..MaxCalls |-> "pending"]],
                            [name |-> "RetryAlways", accept |-> {}])
    IN /\ strategy = e.strategy
       /\ state = e.state
       /\ action = e.action
       /\ handle = e.handle
       /\ condition = e.condition
       /\ trace = e.trace
       /\ inflight = e.inflight
       /\ result = Unpolled
       /\ notified = TRUE
       /\ latePolls = 0

engineVars ==
    <<strategy, state, action, handle, condition, trace, inflight, result,
      notified, latePolls>>

\* A strategy is constructed at some reading of the clock.
InitStrategy ==
    /\ Idle
    /\ clock \in 0..1
    /\ \E s \in Built(clock) : strat = [self |-> s, built |-> s]
    /\ calls = <<>>

\* Whether a pull of the strategy makes a random draw.
RECURSIVE Randomised(_)
Randomised(s) ==
    \/ s.kind \in {"Jittered", "Map"}
    \/ "inner" \in DOMAIN s /\ Randomised(s.inner)

\* The caller pulls the next delay, the random draw being one of D; a call
\* that panicked ends the run.
PullWith(D) ==
    /\ Len(calls) < MaxPulls
    /\ calls # <<>> => ~calls[Len(calls)].item.panic
    /\ \E j \in D :
          LET r == delay(strat.self, Env(clock, j))
          IN /\ strat' = [strat EXCEPT !.self = r.self]
             /\ calls' = Append(calls,
                    [item |-> r.item, at |-> clock, self |-> r.self,
                     j |-> IF r.item.some /\ Randomised(strat.self) THEN j ELSE 0])
    /\ UNCHANGED clock
    /\ UNCHANGED engineVars

Pull == PullWith(Draws)

\* Time passes.
Tick ==
    /\ clock < MaxClock
    /\ clock' = clock + 1
    /\ UNCHANGED <<strat, calls>>
    /\ UNCHANGED engineVars

NextStrategy == Pull \/ Tick

SpecStrategy == InitStrategy /\ [][NextStrategy]_vars

\* The i-th item a strategy yields when pulled from its present state with
\* no time passing and no randomness.
RECURSIVE Nth(_, _)
Nth(s, i) ==
    LET r == delay(s, Env(0, 0))
    IN IF i <= 1 THEN r.item ELSE Nth(r.self, i - 1)

\* The calls made so far on a strategy of the given kind.
Calls(kind) == IF strat.self.kind = kind THEN DOMAIN calls ELSE {}

RECURSIVE Pow(_, _)
Pow(b, n) == IF n = 0 THEN 1 ELSE b * Pow(b, n - 1)

Min(a, b) == IF a <= b THEN a ELSE b

----------------------------------------------------------------------------
\* The value the n-th call (counted from 1) of an exponential back-off of
\* base b is to yield: b to the n-th power, capped at the largest u64.
Exponential(b, n) == Some(Duration_from_millis(Min(Pow(b, n), U64_MAX)))

\* The iterator of strategy/ meets the closed form: its products are checked.
C12_Saturating ==
    \A i \in Calls("ExponentialBackoff") :
        strat.built.factor = 1 => calls[i].item = Exponential(strat.built.base, i)

\* C12: with the default factor every implementation of the exponential
\* back-off yields min(b^(n+1), u64::MAX) milliseconds on its n-th call
\* (counted from 0), saturating and never None.
C12_AsStated ==
    /\ C12_Saturating
    /\ \A i \in Calls("strategies::ExponentialBackoff") :
           calls[i].item = Exponential(strat.built.base, i)

\* The two ways the unchecked product of strategies/ leaves the closed form.
C12_Wrapped ==
    /\ strat.self.kind = "strategies::ExponentialBackoff"
    /\ strat.built.build = "release"
    /\ \E i \in DOMAIN calls :
           /\ calls[i].item.some
           /\ calls[i].item # Exponential(strat.built.base, i)

C12_Panicked ==
    /\ strat.self.kind = "strategies::ExponentialBackoff"
    /\ strat.built.build = "debug"
    /\ \E i \in DOMAIN calls : calls[i].item.panic

----------------------------------------------------------------------------
\* The value of `current` once n calls have been made on base b.
Current(b, n) == Min(Pow(b, n + 1), U64_MAX)

\* C13: the factor scales the yielded value only: the n-th value of
\* from_millis(b).factor(f) is min(c_n * f, u64::MAX) ms with c_n the value
\* the factor 1 gives, and `current` after n calls does not depend on f.
C13_FactorScalesYieldOnly ==
    \A i \in Calls("ExponentialBackoff") :
        LET b == strat.built.base
            f == strat.built.factor
        IN /\ calls[i].item =
                  Some(Duration_from_millis(Min(Current(b, i - 1) * f, U64_MAX)))
           /\ calls[i].self.current = Current(b, i)
           /\ calls[i].self.factor = f

\* A factor above 1 saturated a yield while `current` was still below the
\* maximum.
C13_Witness ==
    /\ strat.self.kind = "ExponentialBackoff"
    /\ strat.built.factor > 1
    /\ \E i \in DOMAIN calls :
           /\ i > 1
           /\ calls[i].item = Some(Duration_from_millis(U64_MAX))
           /\ calls[i - 1].self.current < U64_MAX
           /\ calls[i - 1].self.current > strat.built.base

----------------------------------------------------------------------------
\* The whole milliseconds of the delay yielded by the i-th call.
YieldedMillis(i) == calls[i].item.d.secs * 1000 + calls[i].item.d.nanos \div 1000000

\* C14: FibonacciBackoff::from_millis(b) yields b, b, and from then on the
\* sum of the two preceding yields capped at u64::MAX; it never yields None.
C14_FibonacciSeries ==
    \A i \in Calls("FibonacciBackoff") :
        IF i <= 2
        THEN calls[i].item = Some(Duration_from_millis(strat.built.curr))
        ELSE calls[i].item =
                 Some(Duration_from_millis(
                          Min(YieldedMillis(i - 2) + YieldedMillis(i - 1), U64_MAX)))

\* A sum of two yields overflowed and the maximum was yielded in its place.
C14_Witness ==
    /\ strat.self.kind = "FibonacciBackoff"
    /\ \E i \in DOMAIN calls :
           /\ i > 2
           /\ YieldedMillis(i - 2) + YieldedMillis(i - 1) > U64_MAX
           /\ calls[i].item = Some(Duration_from_millis(U64_MAX))

----------------------------------------------------------------------------
\* The calls so far that returned a delay.
Delivered == { i \in DOMAIN calls : calls[i].item.some }

----------------------------------------------------------------------------
\* C16: limit_delay(S, max) pulls S exactly once per call and returns None
\* when S does, else the smaller of the delay of S and max: a returned delay
\* never exceeds max.
C16_LimitedDelay ==
    \A i \in Calls("LimitedDelay") :
        LET inner == Nth(strat.built.inner, i)
            max == strat.built.maximum
            got == calls[i].item
        IN /\ got.some = inner.some
           /\ ~got.some => got = None
           /\ got.some =>
                  /\ Duration_le(got.d, max)
                  /\ Duration_le(got.d, inner.d)
                  /\ got.d \in {inner.d, max}
           /\ calls[i].self.inner.pulled = i

\* A delay above the maximum was cut down to it, and a later pull found the
\* inner strategy exhausted.
C16_Witness ==
    /\ strat.self.kind = "LimitedDelay"
    /\ \E i \in DOMAIN calls :
           /\ calls[i].item = Some(strat.built.maximum)
           /\ ~Duration_le(Nth(strat.built.inner, i).d, strat.built.maximum)
    /\ \E i \in DOMAIN calls : calls[i].item = None

----------------------------------------------------------------------------
\* The i-th call was made with more than max_duration elapsed since the
\* strategy was built.
Past(i) ==
    calls[i].at - strat.built.start >
        strat.built.max_duration.secs * 1000
            + strat.built.max_duration.nanos \div 1000000

\* The pulls the wrapped iterator had received once the i-th call returned.
InnerPulled(i) == IF i = 0 THEN 0 ELSE calls[i].self.inner.pulled

\* C17: a DeadlineIterator measures elapsed time from its construction.  A
\* call made after more than max_duration returns None without pulling the
\* wrapped iterator; an earlier call pulls it once and returns exactly what
\* it yields; the clock being monotonic, every call after a None of the
\* deadline returns None as well.
C17_Deadline ==
    \A i \in Calls("DeadlineIterator") :
        /\ strat.self.start = strat.built.start
        /\ strat.built.start <= calls[i].at
        /\ Past(i) =>
               /\ calls[i].item = None
               /\ InnerPulled(i) = InnerPulled(i - 1)
               /\ \A k \in DOMAIN calls : k > i => Past(k) /\ calls[k].item = None
        /\ ~Past(i) =>
               /\ InnerPulled(i) = InnerPulled(i - 1) + 1
               /\ calls[i].item = Nth(strat.built.inner, InnerPulled(i))

\* A delay was delivered in time, then the deadline passed and two calls
\* returned None although the wrapped iterator had a delay to give.
C17_Witness ==
    /\ strat.self.kind = "DeadlineIterator"
    /\ \E i, k \in DOMAIN calls :
           /\ 1 < i /\ i < k
           /\ calls[i - 1].item.some
           /\ Past(i)
           /\ calls[k].item = None
           /\ Nth(strat.built.inner, InnerPulled(k) + 1).some

----------------------------------------------------------------------------
\* C18: a strategy built from an explicit finite sequence yields the
\* elements of the sequence in order, each once, and None from then on.
C18_FromIterator ==
    \A i \in Calls("FromIterator") :
        /\ calls[i].item =
               IF i <= Len(strat.built.given) THEN Some(strat.built.given[i]) ELSE None
        /\ calls[i].self.given = strat.built.given

\* A sequence of two different delays was pulled to its end and beyond.
C18_Witness ==
    /\ strat.self.kind = "FromIterator"
    /\ Len(strat.built.given) = 2
    /\ strat.built.given[1] # strat.built.given[2]
    /\ Len(calls) >= 4
    /\ calls[2].item = Some(strat.built.given[2])
    /\ calls[3].item = None
    /\ calls[4].item = None

----------------------------------------------------------------------------
\* The jitter decorator and the jitter mapping function under test.

\* Delays to be jittered: zero, one nanosecond, one millisecond, a second
\* and a half, and a number of seconds that f64 cannot hold exactly.
JitterDelays ==
    { Duration_new(0, 0), Duration_new(0, 1), Duration_new(0, 1000000),
      Duration_new(1, 500000000), Duration_new(2^MantissaBits + 3, 999999999) }

JitterSeqs == SeqsUpTo(JitterDelays, MaxDelays)

InitJitter ==
    /\ Idle
    /\ clock = 0
    /\ \E s \in { Jittered(FromIterator_new(q)) : q \in JitterSeqs }
                    \cup { Map_jitter(IntoIter(q)) : q \in JitterSeqs } :
           strat = [self |-> s, built |-> s]
    /\ calls = <<>>

SpecJitter == InitJitter /\ [][Pull]_vars

\* The calls made so far on a jittered strategy.
JitterCalls == IF strat.self.kind \in {"Jittered", "Map"} THEN DOMAIN calls ELSE {}

\* What the wrapped strategy yields on the i-th call.
Unjittered(i) ==
    IF i <= Len(strat.built.inner.iter) THEN Some(strat.built.inner.iter[i]) ELSE None

\* C19: a jittered delay never exceeds the delay it was made from, for the
\* decorator and for the mapping function alike and for every draw in
\* [0, 1]; the result is None exactly when the wrapped strategy yields None.
C19_AsStated ==
    \A i \in JitterCalls :
        /\ calls[i].item.some = Unjittered(i).some
        /\ calls[i].item.some => Duration_le(calls[i].item.d, Unjittered(i).d)

\* The decorator returned more than the delay it was given.
C19_JitteredExceeds ==
    /\ strat.self.kind = "Jittered"
    /\ \E i \in DOMAIN calls :
           /\ calls[i].item.some
           /\ ~Duration_le(calls[i].item.d, Unjittered(i).d)

\* The mapping function returned more than the delay it was given.
C19_MappedExceeds ==
    /\ strat.self.kind = "Map"
    /\ \E i \in DOMAIN calls :
           /\ calls[i].item.some
           /\ ~Duration_le(calls[i].item.d, Unjittered(i).d)

\* Below the precision of f64 the bound of C19 holds.
C19_ExactRange ==
    \A i \in JitterCalls :
        /\ calls[i].item.some = Unjittered(i).some
        /\ (calls[i].item.some /\ Unjittered(i).d.secs < 2^MantissaBits) =>
               Duration_le(calls[i].item.d, Unjittered(i).d)

----------------------------------------------------------------------------
BelowMillisecond(d, j) ==
    \/ j = 0
    \/ d.secs = 0 /\ d.nanos <= (1000000 * JitterDen - 1) \div j

C20_MappedToZero ==
    /\ strat.self.kind = "Map"
    /\ \E i \in DOMAIN calls :
           /\ Unjittered(i) = Some(Duration_new(0, 1))
           /\ calls[i].j = JitterDen
           /\ calls[i].item = Some(Duration_new(0, 0))

----------------------------------------------------------------------------
\* Stacks of decorators.

\* The strategies at the bottom of a stack: each returns None for ever once
\* it has returned None.
StackInners ==
    { NoRetry, FixedInterval_new(Duration_from_millis(3)),
      FromIterator_new(<<Duration_from_millis(3), Duration_from_millis(1)>>) }

\* One more decorator around the strategy s, built at the clock reading now.
Layers(s, now) ==
    { Jittered(s), limit_delay(s, Duration_from_millis(2)) }
        \cup { limit_retries(s, n) : n \in 1..2 }
        \cup { deadline(s, Duration_from_millis(m), now) : m \in 0..1 }

\* The stacks of one and of two decorators.
Stacks(now) ==
    LET one == UNION { Layers(i, now) : i \in StackInners }
    IN one \cup UNION { Layers(s, now) : s \in one }

InitStack ==
    /\ Idle
    /\ clock = 0
    /\ \E s \in Stacks(clock) : strat = [self |-> s, built |-> s]
    /\ calls = <<>>

\* The draws at the two ends of [0, 1].
PullEnds == PullWith({0, JitterDen})

NextStack == PullEnds \/ Tick

SpecStack == InitStack /\ [][NextStack]_vars

\* The strategy as it was when the i-th call was made.
Before(i) == IF i = 1 THEN strat.built ELSE calls[i - 1].self

\* What the layer below the outermost decorator returns at the i-th call.
Below(i) == delay(Before(i).inner, Env(calls[i].at, calls[i].j)).item

----------------------------------------------------------------------------
\* Equality on Error<E>.

\* Error::TimerError(err) with the timer's error as payload.
Error_TimerError(err) == [tag |-> "TimerError", val |-> err]

\* The errors compared: failures of the operation and failures of the timer.
Errors ==
    { OperationError(e) : e \in 0..MaxCalls } \cup { Error_TimerError(t) : t \in 0..3 }

\* Mutant: the equality a derive would give.
Error_eq_derived(left, right) == left = right

\* impl PartialEq for Error<E>: the arms of the match, in order.
Error_eq(left, right) ==
    IF left.tag = "TimerError" THEN FALSE
    ELSE IF right.tag = "TimerError" THEN FALSE
    ELSE left.val = right.val

InitError ==
    /\ Idle
    /\ clock = 0
    /\ \E l \in Errors, r \in Errors : strat = [kind |-> "Error", left |-> l, right |-> r]
    /\ calls = <<>>

\* The two errors are compared.
Compare ==
    /\ calls = <<>>
    /\ calls' = <<Error_eq(strat.left, strat.right)>>
    /\ UNCHANGED <<strat, clock>>
    /\ UNCHANGED engineVars

SpecError == InitError /\ [][Compare]_vars

\* C22: a == b on Error is true exactly when both sides are OperationError
\* with equal payloads; it is false whenever a side is a TimerError, also
\* when a TimerError is compared with itself.
C22_TimerErrorNeverEqual ==
    calls # <<>> =>
        /\ calls[1] = (/\ strat.left.tag = "OperationError"
                       /\ strat.right.tag = "OperationError"
                       /\ strat.left.val = strat.right.val)
        /\ "TimerError" \in {strat.left.tag, strat.right.tag} => calls[1] = FALSE

\* A TimerError was compared with itself and found unequal.
C22_Witness ==
    /\ calls = <<FALSE>>
    /\ strat.left.tag = "TimerError"
    /\ strat.left = strat.right

----------------------------------------------------------------------------
\* The strategies that use neither the clock nor a random draw.
Undecorated ==
    {"FixedInterval", "ExponentialBackoff", "strategies::ExponentialBackoff",
     "FibonacciBackoff"}

----------------------------------------------------------------------------
\* The delays pulled from the strategy so far, in order.
RECURSIVE PulledFrom(_)
PulledFrom(t) ==
    IF t = <<>> THEN <<>>
    ELSE IF Head(t).ev = "next_some" THEN <<Head(t).n>> \o PulledFrom(Tail(t))
    ELSE PulledFrom(Tail(t))

Consulted == {"should_retry_true", "should_retry_false"}

PullEvents == {"next_some", "next_none"}

\* C24: every failed attempt is followed at once by one evaluation of the
\* Condition on that attempt's failure, and the Condition is evaluated
\* nowhere else; the Strategy is pulled once after each evaluation that
\* returned true and nowhere else; after an evaluation that returned false
\* the engine fails with OperationError of that failure, and the delays
\* pulled so far together with the delays the Strategy still holds are the
\* Strategy as it was handed in.
C24_ConditionBeforeStrategy ==
    /\ \A p \in Pos(trace, {"Err"}) :
           /\ p < Len(trace)
           /\ trace[p + 1].ev \in Consulted
           /\ trace[p + 1].n = trace[p].n
    /\ \A p \in Pos(trace, Consulted) : trace[p - 1].ev = "Err"
    /\ \A p \in Pos(trace, {"should_retry_true"}) :
           p < Len(trace) /\ trace[p + 1].ev \in PullEvents
    /\ \A p \in Pos(trace, PullEvents) : trace[p - 1].ev = "should_retry_true"
    /\ \A p \in Pos(trace, {"should_retry_false"}) :
           /\ p + 1 = Len(trace)
           /\ trace[p + 1] = Ev("OperationError", trace[p].n)
           /\ result = OperationError(trace[p].n)
    /\ PulledFrom(trace) \o strategy \in Strategies

\* One failure was accepted and a delay pulled for it; the next failure was
\* rejected and the delay that was left is still there.
C24_Witness ==
    /\ Count(trace, {"should_retry_true"}) = 1
    /\ Count(trace, {"should_retry_false"}) = 1
    /\ PulledFrom(trace) = <<100>>
    /\ strategy = <<200>>

----------------------------------------------------------------------------
\* C25: an engine that has not been polled yet, whether still held or
\* already dropped, has invoked the Action exactly once, at construction:
\* the first attempt is in flight (or was released by the drop), the
\* Strategy has not been pulled and the Condition has not been consulted.
C25_FirstAttemptAtConstruction ==
    result = Unpolled =>
        /\ action.num_calls = 1
        /\ trace = <<Ev("run", 1), Ev("Running", 1)>>
        /\ state.tag \in {"Running", "Dropped"}
        /\ state.id = 1
        /\ ~Dropped => inflight = {<<"attempt", 1>>}
        /\ strategy \in Strategies
        /\ handle.timeouts = 0

\* The engine was constructed and dropped without ever being polled.
C25_Witness == Dropped /\ result = Unpolled /\ action.num_calls = 1

----------------------------------------------------------------------------
\* The counters of a session, read from its history.
Runs == Count(trace, {"run"})

TimersElapsed == Count(trace, {"elapsed"})

TimersArmed == Count(trace, {"arm"})

ArmsFailed == Count(trace, {"arm_failed"})

SomePulled == Count(trace, {"next_some"})

StrategyPulls == Count(trace, PullEvents)

Accepted == Count(trace, {"should_retry_true"})

Evaluations == Count(trace, Consulted)

FailuresProcessed == Count(trace, {"Err"})

\* The ties that hold whether or not a timer can be armed.
CountersTied ==
    /\ action.num_calls = Runs
    /\ Runs = 1 + TimersElapsed
    /\ StrategyPulls = Accepted
    /\ Accepted <= Evaluations
    /\ Evaluations = FailuresProcessed
    /\ Runs <= 1 + StrategyLen

\* The statement of C26 as it was made: every delay pulled from the
\* Strategy is matched by an armed timer.
C26_AsStated == CountersTied /\ TimersArmed = SomePulled

\* C26: in every state of a session the Action has been started once more
\* than timers have elapsed; every delay pulled from the Strategy was given
\* to Timeout::new, which either armed a timer or failed; the Strategy has
\* been pulled once per Condition evaluation that returned true, the
\* Condition evaluated once per failed attempt processed; the Action is
\* never started more than one plus the number of the Strategy's delays.
C26_CountersTied ==
    /\ CountersTied
    /\ TimersArmed + ArmsFailed = SomePulled
    /\ handle.timeouts = SomePulled
    /\ ArmsFailed <= 1
    /\ ArmsFailed = 1 => result = TimerError

\* A first timer elapsed and the second could not be armed.
C26_Witness == TimersElapsed = 1 /\ ArmsFailed = 1 /\ SomePulled = 2 /\ Runs = 2

----------------------------------------------------------------------------
\* The sessions followed to their end: every attempt and every timer that
\* is created is pending at first and resolves later, either way, or the
\* timer cannot be armed.
FairAttemptKinds == {"pending"}

FairTimerKinds == {"armfail", "pending"}

\* A session in which every attempt eventually completes, every armed timer
\* eventually elapses or fails, and the task is polled again whenever a poll
\* can make progress: the executor polls a spawned future at least once and
\* after every wake-up.
InitFair ==
    \E s \in Strategies, c \in Conditions,
       as \in [1..MaxCalls -> FairAttemptKinds], ts \in [1..MaxDelays -> FairTimerKinds] :
        LET e == with_condition([timeouts |-> 0, script |-> ts], s,
                                [num_calls |-> 0, script |-> as], c)
        IN /\ strategy = e.strategy
           /\ state = e.state
           /\ action = e.action
           /\ handle = e.handle
           /\ condition = e.condition
           /\ trace = e.trace
           /\ inflight = e.inflight
           /\ result = Unpolled
           /\ notified = TRUE
           /\ latePolls = 0
           /\ strat = [kind |-> "none"]
           /\ calls = <<>>
           /\ clock = 0

SpecFair ==
    /\ InitFair
    /\ [][Next]_vars
    /\ WF_vars(Poll)
    /\ WF_vars(AttemptCompletes)
    /\ WF_vars(TimerFires)

\* The delays the strategy held when the session was constructed.
GivenDelays == Len(PulledFrom(trace) \o strategy)

\* C27: with a Strategy of finitely many delays M, under the fairness of
\* SpecFair, the engine eventually returns a success value or an error,
\* whatever the Condition answers, and at no time has the Action been
\* started more than M + 1 times.
C27_Terminates == <>(Completed /\ action.num_calls <= GivenDelays + 1)

\* A session that used every delay of its strategy and succeeded on the
\* last attempt it could make.
C27_Witness ==
    /\ result.tag = "Ready"
    /\ GivenDelays = MaxDelays
    /\ action.num_calls = GivenDelays + 1

----------------------------------------------------------------------------
\* A session driven by a strategy with a deadline. The delays are labels to
\* the engine; when a timer fires is up to the timer substrate.
DeadlineMillis == 0..(MaxClock - 1)

InitDeadline ==
    \E s \in Strategies, c \in Conditions, m \in DeadlineMillis,
       as \in [1..MaxCalls -> FairAttemptKinds], ts \in [1..MaxDelays -> FairTimerKinds] :
        LET e == with_condition([timeouts |-> 0, script |-> ts], s,
                                [num_calls |-> 0, script |-> as], c)
        IN /\ strategy = e.strategy
           /\ state = e.state
           /\ action = e.action
           /\ handle = e.handle
           /\ condition = e.condition
           /\ trace = e.trace
           /\ inflight = e.inflight
           /\ result = Unpolled
           /\ notified = TRUE
           /\ latePolls = 0
           /\ clock = 0
           /\ strat = deadline(IntoIter(s), Duration_from_millis(m), clock)
           /\ calls = <<>>

\* The task polls the engine; `calls` keeps, for every poll that made
\* progress, the clock reading and the part of the history it wrote.
PollDeadline ==
    /\ PollEngine
    /\ calls' = IF trace' = trace THEN calls
                ELSE Append(calls, [at |-> clock, from |-> Len(trace),
                                    to |-> Len(trace')])
    /\ UNCHANGED <<strat, clock>>

NextDeadline == PollDeadline \/ AttemptCompletes \/ TimerFires \/ Tick

SpecDeadline == InitDeadline /\ [][NextDeadline]_vars

\* The deadline has passed at the clock reading `now`.
Passed(now) ==
    now - strat.start >
        strat.max_duration.secs * 1000 + strat.max_duration.nanos \div 1000000

\* The events written by the i-th poll.
Written(i) == (calls[i].from + 1)..calls[i].to

\* C28: the deadline matters only where the strategy is pulled. A poll made
\* after the deadline has passed pulls no delay and arms no timer, and a
\* failure it processes ends the session with OperationError of that
\* failure; yet a timer that elapses after the deadline is still followed by
\* a new attempt, a success after the deadline is still returned, and a
\* pending timer is never cut short. Before the deadline has passed the
\* strategy gives up only when the wrapped iterator is exhausted.
C28_DeadlineOnlyAtPull ==
    /\ \A i \in 1..Len(calls) :
         IF Passed(calls[i].at)
         THEN \A p \in Written(i) :
                /\ trace[p].ev \notin {"next_some", "arm", "arm_failed", "Sleeping"}
                /\ trace[p].ev = "Err" =>
                       trace[calls[i].to] = Ev("OperationError", trace[p].n)
                /\ trace[p].ev = "elapsed" => trace[p + 1].ev = "run"
                /\ trace[p].ev = "Ok" => trace[calls[i].to] = Ev("Ready", trace[p].n)
         ELSE \A p \in Written(i) :
                trace[p].ev = "next_none" =>
                    Count(SubSeq(trace, 1, p), {"next_some"}) = Len(strat.inner.iter)
    /\ state.tag = "Sleeping" /\ state.st = "pending" => ~Completed
    /\ PulledFrom(trace) \o strategy = strat.inner.iter

\* A timer armed before the deadline elapsed after it; the attempt that
\* followed was started all the same, failed, and ended the session though
\* the wrapped iterator still held a delay.
C28_Witness ==
    \E i, k \in 1..Len(calls) :
        /\ i < k
        /\ ~Passed(calls[i].at)
        /\ \E p \in Written(i) : trace[p].ev = "arm"
        /\ Passed(calls[k].at)
        /\ \E p \in Written(k) : trace[p].ev = "elapsed" /\ trace[p + 1].ev = "run"
        /\ condition.name = "RetryAlways"
        /\ result.tag = "OperationError"
        /\ strategy # <<>>

----------------------------------------------------------------------------
\* The retry middleware. `strat` holds the Middleware (its strategy factory
\* and inner service) and the futures its calls have returned; `calls` holds
\* the requests it was called with.
MaxSessions == 2

\* Retry::spawn
Retry_spawn(h, s, a) == with_condition(h, s, a, RetryAlways)

\* impl StrategyFactory for F: Fn() -> I: the closure is called anew; it
\* yields the same sequence of delays every time.
StrategyFactory_get_strategy(factory) == factory

\* Middleware::new
Middleware_new(factory, inner) ==
    [kind |-> "Middleware", inner |-> inner, strategy |-> factory, sessions |-> <<>>]

\* The ServiceRequest built by Middleware::call.
ServiceRequest(inner, request) ==
    [inner |-> inner, request |-> request, sent |-> <<>>,
     num_calls |-> 0, script |-> [i \in 1..MaxCalls |-> "pending"]]

\* The timer handle cloned for a session: its timers are the session's own.
Handle_clone == [timeouts |-> 0, script |-> [i \in 1..MaxDelays |-> "pending"]]

\* Mutant: a call goes on with the strategy the call before it has left.
Middleware_call_shared(mw, request) ==
    Retry_spawn(Handle_clone,
                IF mw.sessions = <<>> THEN StrategyFactory_get_strategy(mw.strategy)
                ELSE mw.sessions[Len(mw.sessions)].self.strategy,
                ServiceRequest(mw.inner, request))

\* Middleware::call: the future returned for the request.
Middleware_call(mw, request) ==
    Retry_spawn(Handle_clone, StrategyFactory_get_strategy(mw.strategy),
                ServiceRequest(mw.inner, request))

InitMiddleware ==
    /\ Idle
    /\ clock = 0
    /\ calls = <<>>
    /\ \E f \in Strategies : strat = Middleware_new(f, "service")

\* A client calls the middleware; the i-th request carries the value i.
Call ==
    /\ Len(calls) < MaxSessions
    /\ LET request == Len(calls) + 1
       IN /\ calls' = Append(calls, request)
          /\ strat' = [strat EXCEPT !.sessions =
                          Append(@, [self |-> Middleware_call(strat, request),
                                     result |-> Unpolled])]
    /\ UNCHANGED clock
    /\ UNCHANGED engineVars

Session(i) == strat.sessions[i]

\* The task polls the future of the i-th call until it has completed.
PollSession(i) ==
    /\ Session(i).result.tag \notin Terminal
    /\ LET r == Retry_poll(Session(i).self)
       IN strat' = [strat EXCEPT !.sessions[i] =
                       [self |-> IF r.ret.tag = "NotReady" THEN r.self
                                 ELSE Log(r.self, r.ret.tag, r.ret.val),
                        result |-> r.ret]]
    /\ UNCHANGED <<calls, clock>>
    /\ UNCHANGED engineVars

\* The inner service answers the pending attempt of the i-th call.
ServiceResponds(i) ==
    /\ Session(i).self.state.tag = "Running"
    /\ Session(i).self.state.st = "pending"
    /\ \E out \in {"ok", "err"} :
           strat' = [strat EXCEPT !.sessions[i].self.state.st = out]
    /\ UNCHANGED <<calls, clock>>
    /\ UNCHANGED engineVars

\* The pending timer of the i-th call elapses or fails.
TimerFiresFor(i) ==
    /\ Session(i).self.state.tag = "Sleeping"
    /\ Session(i).self.state.st = "pending"
    /\ \E out \in {"elapsed", "err"} :
           strat' = [strat EXCEPT !.sessions[i].self.state.st = out]
    /\ UNCHANGED <<calls, clock>>
    /\ UNCHANGED engineVars

PollSome == \E i \in 1..Len(strat.sessions) : PollSession(i)

RespondSome == \E i \in 1..Len(strat.sessions) : ServiceResponds(i)

FireSome == \E i \in 1..Len(strat.sessions) : TimerFiresFor(i)

NextMiddleware == Call \/ PollSome \/ RespondSome \/ FireSome

SpecMiddleware == InitMiddleware /\ [][NextMiddleware]_vars

\* C29: every call of the middleware has a retry session of its own. The
\* delays a session has pulled together with those its strategy still holds
\* are the whole sequence of the factory, whatever the other sessions have
\* consumed; a session that ends with OperationError has made one attempt
\* more than the factory yields delays; and every attempt of a session has
\* sent the inner service the value the middleware was called with, which
\* the session still holds.
C29_SessionsIndependent ==
    /\ Len(strat.sessions) = Len(calls)
    /\ \A i \in 1..Len(calls) :
         LET e == Session(i).self
         IN /\ PulledFrom(e.trace) \o e.strategy = strat.strategy
            /\ e.condition = RetryAlways
            /\ e.action.num_calls = Count(e.trace, {"run"})
            /\ e.action.num_calls <= Len(strat.strategy) + 1
            /\ Session(i).result.tag = "OperationError" =>
                   e.action.num_calls = Len(strat.strategy) + 1
            /\ e.action.request = calls[i]
            /\ e.action.sent = [k \in 1..e.action.num_calls |-> calls[i]]
            /\ e.action.inner = strat.inner

\* Two calls in flight at once: the first has used up every delay and made
\* its last attempt, the second, begun before the first ended, has pulled
\* nothing yet and still has them all.
C29_Witness ==
    /\ Len(calls) = 2
    /\ strat.strategy # <<>>
    /\ Session(1).self.strategy = <<>>
    /\ Session(1).self.action.num_calls = Len(strat.strategy) + 1
    /\ Session(1).result.tag \notin Terminal
    /\ Session(2).self.strategy = strat.strategy
    /\ Session(2).self.action.num_calls = 1
    /\ Session(2).result.tag = "NotReady"

====
